---- MODULE Spec2Model ----
\* Model of multirepr_indexing.py: the ingestion loop (process_documents) and
\* the query entry point (run_retrieval_chain) over a SQLite table "documents"
\* (the Record Store) and a Chroma collection "summary_vectors" (the Summary
\* Index).  External collaborators (partition, SummaryChain, Chroma, RetrievalQA,
\* SQLite I/O) either return or raise; the model enumerates both outcomes.
EXTENDS Integers, Naturals, Sequences, FiniteSets, TLC

\* ---------------------------------------------------------------- bounds
MaxFiles == 2      \* entries in the folder listing
MaxSegs  == 2      \* segments partition() yields for one file
MaxRuns  == 2      \* calls of process_documents on the same folder
MaxFaults == 2     \* transient failures of external calls in one behaviour

Names == <<"a.txt", "b.txt", "c.txt", "d.txt">>
FileNames == {Names[i] : i \in 1..MaxFiles}

folder_path == "path/to/documents"

VARIABLES
    listing,     \* os.listdir(folder_path): the folder's entries, in listing order
    unreadable,  \* entries on which partition() raises
    nsegs,       \* entry -> number of segments partition() yields
    records,     \* table documents: id (PRIMARY KEY) -> metadata text
    index,       \* collection summary_vectors: appended entries, oldest first
    conn,        \* connection of the current call: "none" | "open" | "closed"
    fn,          \* function being executed (or last executed)
    pc,          \* position inside fn
    outcome,     \* how the last call ended: "none" | "returned" | "raised"
    doc_id,      \* loop variable of line 63
    documents,   \* result of partition(file_path), line 65
    doc,         \* position of the inner loop (line 67) in documents
    summary,     \* result of summary_chain.run(content), line 76
    ids,         \* ids handed out by enumerate() in the current run
    nfaults,     \* transient failures of external calls so far
    write_failed,\* some INSERT/commit failed for a reason other than a duplicate id
    raised_at,   \* line of the call whose exception ended the current call
    logged,      \* message the step just taken gave to logging
    runs         \* per finished process_documents call: row and entry counts

vars == <<listing, unreadable, nsegs, records, index, conn, fn, pc, outcome,
          doc_id, documents, doc, summary, ids, nfaults, write_failed, raised_at,
          logged, runs>>

folderVars == <<listing, unreadable, nsegs>>
loopVars   == <<doc_id, documents, doc, summary, ids>>

\* ---------------------------------------------------------------- helpers
Range(s) == {s[i] : i \in DOMAIN s}

Injective(s) == \A i, j \in DOMAIN s : s[i] = s[j] => i = j

Listings == {s \in UNION {[1..n -> FileNames] : n \in 0..MaxFiles} : Injective(s)}

\* os.path.join(folder_path, filename)
file_path(filename) == <<folder_path, filename>>

\* partition(file_path) on a readable file: its segments, in order.  Segment p
\* carries its text, its page number and its (here empty) image list.
partition(filename, n) ==
    [p \in 1..n |-> [text |-> <<filename, p>>,
                     page_number |-> p,
                     images |-> <<>>]]

\* Variant of metadata_of that stores the joined path under 'filename'.
metadata_of_path(filename, seg) ==
    [filename    |-> file_path(filename),
     source      |-> file_path(filename),
     pagenumber  |-> seg.page_number,
     image_count |-> Len(seg.images),
     images      |-> [i \in 0..(Len(seg.images) - 1) |-> seg.images[i + 1].path]]

\* The metadata dict of lines 69-75.
metadata_of(filename, seg) ==
    [filename    |-> filename,
     source      |-> file_path(filename),
     pagenumber  |-> seg.page_number,
     image_count |-> Len(seg.images),
     images      |-> [i \in 0..(Len(seg.images) - 1) |-> seg.images[i + 1].path]]

\* json.dumps(metadata): the text stored in the column, as key/value pairs in
\* the dict's insertion order.
json_dumps(m) ==
    << <<"filename", m.filename>>,
       <<"source", m.source>>,
       <<"pagenumber", m.pagenumber>>,
       <<"image_count", m.image_count>>,
       <<"images", m.images>> >>

\* Value stored under a key of a serialized metadata text.
Field(text, key) == text[CHOOSE i \in DOMAIN text : text[i][1] = key][2]

\* summary_chain.run(content): a text derived from the segment's content.
summary_of(content) == <<"summary", content>>

\* enumerate(os.listdir(folder_path), start=1): the id paired with the entry at
\* 1-based position i of the listing.
start == 1

enumerate_id(i) == start + (i - 1)

\* Effect of add_document on the table.  INSERT on a PRIMARY KEY that is
\* already present raises IntegrityError; ioerr stands for any other failure
\* of the statement or the commit.  Either way the except clause swallows it.
add_document_fails(recs, id, ioerr) == ioerr \/ id \in DOMAIN recs

\* Variant of add_document whose INSERT is never committed: no row persists.
add_document_nocommit(recs, id, metadata, ioerr) == recs

add_document(recs, id, metadata, ioerr) ==
    IF add_document_fails(recs, id, ioerr)
    THEN recs
    ELSE recs @@ (id :> json_dumps(metadata))

\* Variant of add_summary that replaces the entries of the same id (upsert).
add_summary_upsert(idx, id, text, err) ==
    IF err
    THEN idx
    ELSE Append(SelectSeq(idx, LAMBDA e : e.metadata.id # id),
                [text |-> text, metadata |-> [id |-> id]])

\* Effect of add_summary on the collection: one more entry, or none when
\* add_documents raises.
add_summary(idx, id, text, err) ==
    IF err
    THEN idx
    ELSE Append(idx, [text |-> text, metadata |-> [id |-> id]])

Snapshot == [rows |-> Cardinality(DOMAIN records), entries |-> Len(index)]

\* ---------------------------------------------------------------- Init
Init ==
    /\ listing \in Listings
    /\ unreadable \in SUBSET Range(listing)
    /\ nsegs \in [Range(listing) -> 0..MaxSegs]
    /\ \A f \in unreadable : nsegs[f] = 0
    /\ records = <<>>
    /\ index = <<>>
    /\ conn = "none"
    /\ fn = "none"
    /\ pc = "idle"
    /\ outcome = "none"
    /\ doc_id = start - 1
    /\ documents = <<>>
    /\ doc = 0
    /\ summary = <<>>
    /\ ids = {}
    /\ nfaults = 0
    /\ write_failed = FALSE
    /\ raised_at = "none"
    /\ logged = "none"
    /\ runs = <<>>

Idle == pc \in {"idle", "done"}

\* An exception leaves the function: nothing after the raising line runs.
Raise(line) ==
    /\ pc' = "done"
    /\ outcome' = "raised"
    /\ raised_at' = line

\* A transient failure of an external call.
Fault ==
    /\ nfaults < MaxFaults
    /\ nfaults' = nfaults + 1

NoFault == UNCHANGED nfaults

Quiet == logged' = "none"

\* ---------------------------------------------------------------- process_documents
\* lines 53-54: connect_db(), create_table(conn)
PD_Connect ==
    /\ Idle
    /\ Len(runs) < MaxRuns
    /\ fn' = "process_documents"
    /\ pc' = "chroma"
    /\ conn' = "open"
    /\ outcome' = "none"
    /\ raised_at' = "none"
    /\ doc_id' = start - 1
    /\ documents' = <<>>
    /\ doc' = 0
    /\ summary' = <<>>
    /\ ids' = {}
    /\ Quiet /\ NoFault
    /\ UNCHANGED <<folderVars, records, index, write_failed, runs>>

\* lines 57-60: Chroma(...), SummaryChain(...)
PD_Stores ==
    /\ fn = "process_documents" /\ pc = "chroma"
    /\ \/ /\ pc' = "for_file"
          /\ NoFault
          /\ UNCHANGED <<outcome, raised_at, runs>>
       \/ /\ Fault
          /\ Raise("Chroma")
          /\ runs' = Append(runs, Snapshot)
    /\ Quiet
    /\ UNCHANGED <<folderVars, records, index, conn, fn, loopVars, write_failed>>

\* line 63: next (doc_id, filename) of enumerate(...), or the loop ends
PD_NextFile ==
    /\ fn = "process_documents" /\ pc = "for_file"
    /\ IF doc_id - start + 1 < Len(listing)
       THEN /\ doc_id' = enumerate_id(doc_id - start + 2)
            /\ ids' = ids \cup {enumerate_id(doc_id - start + 2)}
            /\ pc' = "partition"
       ELSE /\ pc' = "close"
            /\ UNCHANGED <<doc_id, ids>>
    /\ Quiet /\ NoFault
    /\ UNCHANGED <<folderVars, records, index, conn, fn, outcome, documents,
                   doc, summary, write_failed, raised_at, runs>>

filename == listing[doc_id - start + 1]

\* lines 64-65: documents = partition(file_path), not guarded
PD_Partition ==
    /\ fn = "process_documents" /\ pc = "partition"
    /\ IF filename \in unreadable
       THEN /\ Raise("partition")
            /\ runs' = Append(runs, Snapshot)
            /\ UNCHANGED <<documents, doc>>
       ELSE /\ documents' = partition(filename, nsegs[filename])
            /\ doc' = 0
            /\ pc' = "for_doc"
            /\ UNCHANGED <<outcome, raised_at, runs>>
    /\ Quiet /\ NoFault
    /\ UNCHANGED <<folderVars, records, index, conn, fn, doc_id, summary, ids,
                   write_failed>>

\* lines 67-75: next doc of documents, or the inner loop ends
PD_NextDoc ==
    /\ fn = "process_documents" /\ pc = "for_doc"
    /\ IF doc < Len(documents)
       THEN /\ doc' = doc + 1
            /\ pc' = "summarize"
       ELSE /\ pc' = "for_file"
            /\ UNCHANGED doc
    /\ Quiet /\ NoFault
    /\ UNCHANGED <<folderVars, records, index, conn, fn, outcome, doc_id,
                   documents, summary, ids, write_failed, raised_at, runs>>

metadata == metadata_of(filename, documents[doc])

\* line 76: summary = summary_chain.run(content), not guarded
PD_Summarize ==
    /\ fn = "process_documents" /\ pc = "summarize"
    /\ \/ /\ summary' = summary_of(documents[doc].text)
          /\ pc' = "add_document"
          /\ NoFault
          /\ UNCHANGED <<outcome, raised_at, runs>>
       \/ /\ Fault
          /\ Raise("summary_chain.run")
          /\ runs' = Append(runs, Snapshot)
          /\ UNCHANGED summary
    /\ Quiet
    /\ UNCHANGED <<folderVars, records, index, conn, fn, doc_id, documents,
                   doc, ids, write_failed>>

\* Variant of PD_AddDocument without the try/except of lines 33-41: a failing
\* INSERT leaves process_documents.
PD_AddDocument_uncaught ==
    /\ fn = "process_documents" /\ pc = "add_document"
    /\ \E ioerr \in BOOLEAN :
          /\ IF ioerr THEN Fault ELSE NoFault
          /\ write_failed' = (write_failed \/ ioerr)
          /\ records' = add_document(records, doc_id, metadata, ioerr)
          /\ IF add_document_fails(records, doc_id, ioerr)
             THEN /\ logged' = "Error adding document"
                  /\ Raise("add_document")
                  /\ runs' = Append(runs, Snapshot)
             ELSE /\ logged' = "Document added successfully"
                  /\ pc' = "add_summary"
                  /\ UNCHANGED <<outcome, raised_at, runs>>
    /\ UNCHANGED <<folderVars, index, conn, fn, loopVars>>

\* line 77: add_document(conn, doc_id, metadata), lines 32-41
PD_AddDocument ==
    /\ fn = "process_documents" /\ pc = "add_document"
    /\ \E ioerr \in BOOLEAN :
          /\ IF ioerr THEN Fault ELSE NoFault
          /\ write_failed' = (write_failed \/ ioerr)
          /\ records' = add_document(records, doc_id, metadata, ioerr)
          /\ logged' = IF add_document_fails(records, doc_id, ioerr)
                       THEN "Error adding document"
                       ELSE "Document added successfully"
    /\ pc' = "add_summary"
    /\ UNCHANGED <<folderVars, index, conn, fn, outcome, loopVars, raised_at, runs>>

\* line 78: add_summary(doc_id, summary, summary_vector_store), lines 44-49
PD_AddSummary ==
    /\ fn = "process_documents" /\ pc = "add_summary"
    /\ \E err \in BOOLEAN :
          /\ IF err THEN Fault ELSE NoFault
          /\ index' = add_summary(index, doc_id, summary, err)
          /\ logged' = IF err
                       THEN "Error adding summary"
                       ELSE "Summary added successfully"
    /\ pc' = "for_doc"
    /\ UNCHANGED <<folderVars, records, conn, fn, outcome, loopVars,
                   write_failed, raised_at, runs>>

\* line 80: conn.close()
PD_Close ==
    /\ fn = "process_documents" /\ pc = "close"
    /\ conn' = "closed"
    /\ pc' = "done"
    /\ outcome' = "returned"
    /\ runs' = Append(runs, Snapshot)
    /\ Quiet /\ NoFault
    /\ UNCHANGED <<folderVars, records, index, fn, loopVars, write_failed,
                   raised_at>>

\* ---------------------------------------------------------------- run_retrieval_chain
\* line 85: conn = connect_db()
RC_Connect ==
    /\ Idle
    /\ fn' = "run_retrieval_chain"
    /\ pc' = "build"
    /\ conn' = "open"
    /\ outcome' = "none"
    /\ raised_at' = "none"
    /\ Quiet /\ NoFault
    /\ UNCHANGED <<folderVars, records, index, loopVars, write_failed, runs>>

\* lines 88-101: Chroma(...), MultiVectorRetriever(...), RetrievalQA(...)
RC_Build ==
    /\ fn = "run_retrieval_chain" /\ pc = "build"
    /\ \/ /\ pc' = "run"
          /\ NoFault
          /\ UNCHANGED <<outcome, raised_at>>
       \/ /\ Fault
          /\ Raise("Chroma")
    /\ Quiet
    /\ UNCHANGED <<folderVars, records, index, conn, fn, loopVars, write_failed,
                   runs>>

\* lines 104-105: result = retrieval_chain.run(query), not guarded; the search
\* and the record lookup happen inside the library
RC_Run ==
    /\ fn = "run_retrieval_chain" /\ pc = "run"
    /\ \/ /\ pc' = "close"
          /\ logged' = "Query Result"
          /\ NoFault
          /\ UNCHANGED <<outcome, raised_at>>
       \/ /\ Fault
          /\ Raise("retrieval_chain.run")
          /\ Quiet
    /\ UNCHANGED <<folderVars, records, index, conn, fn, loopVars, write_failed,
                   runs>>

\* line 107: conn.close()
RC_Close ==
    /\ fn = "run_retrieval_chain" /\ pc = "close"
    /\ conn' = "closed"
    /\ pc' = "done"
    /\ outcome' = "returned"
    /\ Quiet /\ NoFault
    /\ UNCHANGED <<folderVars, records, index, fn, loopVars, write_failed,
                   raised_at, runs>>

Next ==
    \/ PD_Connect
    \/ PD_Stores
    \/ PD_NextFile
    \/ PD_Partition
    \/ PD_NextDoc
    \/ PD_Summarize
    \/ PD_AddDocument
    \/ PD_AddSummary
    \/ PD_Close
    \/ RC_Connect
    \/ RC_Build
    \/ RC_Run
    \/ RC_Close

Spec == Init /\ [][Next]_vars

TypeOK ==
    /\ listing \in Listings
    /\ conn \in {"none", "open", "closed"}
    /\ fn \in {"none", "process_documents", "run_retrieval_chain"}
    /\ outcome \in {"none", "returned", "raised"}
    /\ doc_id \in 0..MaxFiles
    /\ doc \in 0..MaxSegs
    /\ ids \subseteq 1..MaxFiles
    /\ nfaults \in 0..MaxFaults
    /\ Len(runs) <= MaxRuns

\* ---------------------------------------------------------------- properties
n == Len(listing)

\* No entry is unreadable and no external call has failed so far.
Clean == unreadable = {} /\ nfaults = 0

PD_Done == fn = "process_documents" /\ pc = "done"

RECURSIVE SumSegs(_)
SumSegs(i) == IF i = 0 THEN 0 ELSE nsegs[listing[i]] + SumSegs(i - 1)

\* Positions of the index entries that carry doc id i.
EntriesOf(i) == {j \in 1..Len(index) : index[j].metadata.id = i}

\* C1: after a failure-free run, the row of a file that yielded two or more
\* segments holds the metadata of the file's LAST segment.
C1_LastWriterWins ==
    (PD_Done /\ outcome = "returned" /\ Clean) =>
        \A i \in 1..n :
            nsegs[listing[i]] >= 2 =>
                /\ i \in DOMAIN records
                /\ Field(records[i], "pagenumber") = nsegs[listing[i]]

\* C2: when the only failures are entries partition() raises on, the run
\* returns, adds nothing for those entries and ingests every other entry.
C2_ExtractionFailureIsolated ==
    (PD_Done /\ Len(runs) = 1 /\ nfaults = 0) =>
        /\ outcome = "returned"
        /\ \A i \in 1..n :
              IF listing[i] \in unreadable
              THEN i \notin DOMAIN records /\ EntriesOf(i) = {}
              ELSE /\ Cardinality(EntriesOf(i)) = nsegs[listing[i]]
                   /\ (nsegs[listing[i]] >= 1 => i \in DOMAIN records)

C4_ConnectionClosed == pc = "done" => conn = "closed"

\* C5: a run that opened its stores and met no unreadable entry always reaches
\* the end of the listing: a failing summary_chain.run does not end it.
C5_SummarizeFailureContinues ==
    (PD_Done /\ unreadable = {} /\ raised_at # "Chroma") =>
        /\ outcome = "returned"
        /\ ids = 1..n

\* C6: a failing add_document or add_summary leaves the store it wrote to
\* unchanged, raises nothing, and the loop goes on with the next step.
C6_WriteFailuresNotFatal ==
    [][ /\ (pc = "add_document" /\ logged' = "Error adding document") =>
              /\ records' = records
              /\ pc' = "add_summary"
              /\ outcome' = "none"
        /\ (pc = "add_summary" /\ logged' = "Error adding summary") =>
              /\ index' = index
              /\ pc' = "for_doc"
              /\ outcome' = "none"
        /\ (pc \in {"add_document", "add_summary"}) => pc' # "done" ]_vars

\* A first run that returned although one INSERT and one index add failed.
C6_Witness ==
    /\ PD_Done /\ Len(runs) = 1 /\ outcome = "returned"
    /\ write_failed
    /\ Len(index) < SumSegs(n)
    /\ ids = 1..n /\ n >= 2

\* C7: after a run that opened its stores, the ids handed out are exactly
\* 1..n, one per listed entry.
C7_IdsBijective ==
    (PD_Done /\ raised_at # "Chroma") =>
        /\ ids = 1..n
        /\ Cardinality(ids) = n

\* C9: after a failure-free first run the collection holds one entry per
\* segment, carrying its file's id, and the table holds one row per file that
\* yielded a segment, keyed by the file's id and naming the file.
C9_OnePerSegment ==
    (PD_Done /\ Len(runs) = 1 /\ Clean) =>
        /\ Len(index) = SumSegs(n)
        /\ \A i \in 1..n : Cardinality(EntriesOf(i)) = nsegs[listing[i]]
        /\ DOMAIN records = {i \in 1..n : nsegs[listing[i]] >= 1}
        /\ \A i \in DOMAIN records : Field(records[i], "filename") = listing[i]

\* The folder holds the single one-segment file "a.txt".
C9_Witness ==
    /\ PD_Done /\ Len(runs) = 1 /\ Clean
    /\ listing = <<"a.txt">> /\ nsegs["a.txt"] = 1
    /\ DOMAIN records = {1}
    /\ Field(records[1], "filename") = "a.txt"
    /\ Len(index) = 1 /\ index[1].metadata.id = 1

\* C10: as long as no INSERT failed for a reason other than a duplicate id,
\* every doc id held in the collection has a row in the table.
C10_ReferentialIntegrity ==
    ~write_failed =>
        \A j \in 1..Len(index) : index[j].metadata.id \in DOMAIN records

\* Second run: the INSERT has just failed on an id ingested by the first run.
C10_Witness ==
    /\ ~write_failed
    /\ Len(runs) = 1
    /\ fn = "process_documents" /\ pc = "add_summary"
    /\ logged = "Error adding document"
    /\ Len(index) > 0

\* An INSERT failure on a fresh id leaves a doc id without a row.
Dangling ==
    \E j \in 1..Len(index) : index[j].metadata.id \notin DOMAIN records
====
